---- MODULE Spec2Model ----
(***************************************************************************)
(* A model of pybuild/package.py: the Package class, its toolchain lookup   *)
(* (ndk / _check_ndk), its build environment (init_build_env) and its       *)
(* archive cache (tarball_name, fetch_tarball, create_tarball,              *)
(* extract_tarball, upload_tarball), its sources (sources, need_download)   *)
(* and the way it runs a build command (run, run_with_env).                 *)
(*                                                                          *)
(* Python values are modelled by strings: None, True and False are the      *)
(* strings below, a path is the string pathlib would print, an exception is *)
(* the string naming it.  A dict is a function from its keys.               *)
(***************************************************************************)
EXTENDS Integers, Sequences, FiniteSets, TLC

VARIABLES
    \* the process environment and the machine (read, never written, by Package)
    environ,            \* os.environ: each variable's value, or None
    sysname,            \* os.uname().sysname
    fsDirs,             \* the toolchain directories that exist on disk
    targetArch,         \* what util.target_arch() returns
    api_level,          \* what util.android_api_level() returns
    ndk_revision,       \* what util.parse_ndk_revision(ndk) returns
    umask,              \* the file-creation mask the archives are written under
    asserts,            \* whether the interpreter runs assert statements (not python -O)
    \* class attributes of the Package subclass
    cls,                \* type(self).__name__
    version,            \* Package.version (None or a literal)
    source_version,     \* what self.source.get_version() returns
    skip_uploading,     \* Package.skip_uploading
    \* instance attributes
    name,               \* self.name
    arch,               \* self.arch
    env,                \* self.env
    _ndk,               \* self._ndk
    unified_toolchain,  \* self.unified_toolchain (Unset until assigned)
    \* the build directory
    localFile,          \* the file at DIST_PATH / tarball_name
    sysroot,            \* the shared SYSROOT directory
    \* what the last call did
    op,                 \* the method or property last called
    ret,                \* its return value (None when it raised)
    err,                \* the exception it raised (NoError when it returned)
    checked,            \* whether it ran _check_ndk (read the environment)
    response,           \* the answer to its network request (NoRequest if none)
    \* the instances constructed so far
    instances,          \* how many Package objects have been constructed
    produced,           \* the env left by each init_build_env call on an empty env
    \* a second archive key, to compare archive names
    other,              \* [name, arch, version, api_level, ndk_revision]
    otherName,          \* the archive name computed for it (None before)
    \* the publish destination
    destFile,           \* the file at dest / tarball_name
    destMode,           \* its permission bits (0 while it is absent)
    destKind,           \* what is at the path the destination variable names
    \* the sources the class declares
    source,             \* Package.source
    patches,            \* Package.patches
    makefile,           \* whether source_dir / 'Makefile' exists
    owner,              \* the package attribute of the source and of each patch
    \* the build
    stage,              \* the lifecycle state the package is in
    ranEnv              \* the env the last build command ran with

world      == <<environ, sysname, fsDirs, targetArch, api_level, ndk_revision, umask,
                asserts>>
classAttrs == <<cls, version, source_version, skip_uploading>>
identity   == <<name, arch>>
toolchain  == <<_ndk, unified_toolchain>>
disk       == <<localFile, sysroot>>
outcome    == <<op, ret, err, checked, response>>
history    == <<instances, produced>>
compared   == <<other, otherName>>
published  == <<destFile, destMode, destKind>>
declared   == <<source, patches, makefile>>
lifecycle  == <<stage, ranEnv>>
vars == <<world, classAttrs, identity, env, toolchain, disk, outcome, history, compared,
          published, declared, owner, lifecycle>>

----------------------------------------------------------------------------
(* Python values *)

None  == "<None>"
True  == "True"
False == "False"
Unset == "<no attribute>"
NoError == "<no exception>"

\* bool(v) is False for None and for the empty string
Falsy(v) == v = None \/ v = ""

\* str.lower() on the strings the model uses
Lower(s) ==
    CASE s = "Linux"   -> "linux"
      [] s = "Darwin"  -> "darwin"
      [] s = "FreeBSD" -> "freebsd"
      [] s = "Foo"     -> "foo"
      [] s = "Zlib"    -> "zlib"
      [] OTHER         -> s

\* str.upper() on the binutils program names
Upper(s) ==
    CASE s = "ar"      -> "AR"
      [] s = "as"      -> "AS"
      [] s = "ld"      -> "LD"
      [] s = "objcopy" -> "OBJCOPY"
      [] s = "objdump" -> "OBJDUMP"
      [] s = "ranlib"  -> "RANLIB"
      [] s = "strip"   -> "STRIP"
      [] s = "readelf" -> "READELF"
      [] OTHER         -> s

\* pathlib: p / c
PathJoin(p, c) == p \o "/" \o c

\* os.getenv(k)
getenv(k) == environ[k]

----------------------------------------------------------------------------
(* Bounds and the inputs the model draws from *)

MaxInstances == 2

NdkRoot == "/opt/android-ndk"
EnvironValues == {None, "", NdkRoot}
Sysnames == {"Linux", "Darwin", "FreeBSD"}
SupportedHosts == {"linux", "darwin"}

TargetArchs ==
    { [cls |-> "arm64", ANDROID_TARGET |-> "aarch64-linux-android",
       binutils_prefix |-> "aarch64-linux-android"],
      [cls |-> "arm", ANDROID_TARGET |-> "armv7a-linux-androideabi",
       binutils_prefix |-> "arm-linux-androideabi"] }
ApiLevels == {21, 24}
Revisions == {"21", "21-beta1"}
ClassNames == {"Foo", "Zlib"}
Versions == {"1.2.3", "1.2.3-arm64"}

ErrorStatuses == {403, 500}
Responses ==
    { [kind |-> "http", code |-> c] : c \in {200, 404} \cup ErrorStatuses }
    \cup { [kind |-> "urlerror", code |-> 0], [kind |-> "readerror", code |-> 200] }
NoRequest == [kind |-> "none", code |-> 0]

MaxPatches == 2

NdkVar  == "ANDROID_NDK"
DestVar == "PYTHON3_ANDROID_TARBALL_DEST"
DestDir == "/mnt/tarballs"
DestValues == {None, "", DestDir}

\* os.environ with the two variables Package reads
Environ(ndkValue, destValue) ==
    [k \in {NdkVar, DestVar} |-> IF k = NdkVar THEN ndkValue ELSE destValue]

\* umask 022 and umask 077, and the permission bits of a file created under each
\* what the destination path can be: a directory, a regular file, a missing
\* path in an existing directory, a path whose parent is missing too, and
\* (after a copy onto it) a regular file that is a copy of the archive
DestKinds == {"dir", "file", "missing", "noparent"}

Umasks == {18, 63}
CreatedMode(mask) == IF mask = 18 THEN 420 ELSE 384

\* Package.source: None, a URLSource or a VCSSource, with its sig_suffix
NoSource == [kind |-> "none", url |-> "", sig |-> None]
SourceValues ==
    {NoSource} \cup [kind : {"url", "vcs"}, url : {"https://host/foo-1.2.3.tar.gz"},
                     sig : {None, ".asc"}]
\* an entry of Package.patches: a patch that is a Source, or one that is not
PatchValues ==
    [kind : {"url", "local"}, url : {"https://host/fix.patch"}, sig : {None, ".sig"}]
PatchLists == UNION { [1..n -> PatchValues] : n \in 0..MaxPatches }

----------------------------------------------------------------------------
(* Toolchain lookup: _check_ndk and the ndk property *)

\* the messages of the three exceptions _check_ndk raises
ConfigurationError    == "Requires environment variable $ANDROID_NDK"
UnsupportedHostError  == "Unsupported system " \o Lower(sysname)
ToolchainVersionError == "Requires Android NDK r19 or above"
AttributeError        == "AttributeError: unified_toolchain"
NoSourceRunError      == "AttributeError: run_in_source_dir"
NoVersionError        == "AttributeError: get_version"

\* ndk / 'toolchains' / 'llvm' / 'prebuilt' / f'{HOST_OS}-x86_64' / 'bin'
UnifiedToolchain(root, host) ==
    PathJoin(PathJoin(PathJoin(PathJoin(PathJoin(root,
        "toolchains"), "llvm"), "prebuilt"), host \o "-x86_64"), "bin")

ToolchainDirs == { UnifiedToolchain(NdkRoot, h) : h \in SupportedHosts }

\* pathlib.Path.exists() on a toolchain directory
Exists(path) == path \in fsDirs

\* A mutant of _check_ndk: the host is checked before the environment variable.
CheckNdkHostFirst ==
    LET ndk_path == getenv("ANDROID_NDK")
        HOST_OS  == Lower(sysname)
        ut       == UnifiedToolchain(ndk_path, HOST_OS)
    IN  IF HOST_OS \notin SupportedHosts
        THEN [err |-> UnsupportedHostError, unified_toolchain |-> unified_toolchain,
              _ndk |-> _ndk, checked |-> TRUE]
        ELSE IF Falsy(ndk_path)
        THEN [err |-> ConfigurationError, unified_toolchain |-> unified_toolchain,
              _ndk |-> _ndk, checked |-> TRUE]
        ELSE IF ~Exists(ut)
        THEN [err |-> ToolchainVersionError, unified_toolchain |-> ut,
              _ndk |-> _ndk, checked |-> TRUE]
        ELSE [err |-> NoError, unified_toolchain |-> ut, _ndk |-> ndk_path,
              checked |-> TRUE]

\* Package._check_ndk: the exception it raises (or NoError) and the attributes
\* it leaves on the instance.  self.unified_toolchain is assigned before the
\* directory is tested; self._ndk only after every test passed.
_check_ndk ==
    LET ndk_path == getenv("ANDROID_NDK")
        HOST_OS  == Lower(sysname)
        ut       == UnifiedToolchain(ndk_path, HOST_OS)
    IN  IF Falsy(ndk_path)
        THEN [err |-> ConfigurationError, unified_toolchain |-> unified_toolchain,
              _ndk |-> _ndk, checked |-> TRUE]
        ELSE IF HOST_OS \notin SupportedHosts
        THEN [err |-> UnsupportedHostError, unified_toolchain |-> unified_toolchain,
              _ndk |-> _ndk, checked |-> TRUE]
        ELSE IF ~Exists(ut)
        THEN [err |-> ToolchainVersionError, unified_toolchain |-> ut,
              _ndk |-> _ndk, checked |-> TRUE]
        ELSE [err |-> NoError, unified_toolchain |-> ut, _ndk |-> ndk_path,
              checked |-> TRUE]

\* The property Package.ndk: validate unless a root is memoized.
ndk ==
    IF _ndk = None
    THEN _check_ndk
    ELSE [err |-> NoError, unified_toolchain |-> unified_toolchain, _ndk |-> _ndk,
          checked |-> FALSE]

----------------------------------------------------------------------------
(* The archive name *)

\* A mutant of get_version: the version of the source wins over the declared one.
GetVersionSourceFirst ==
    IF source.kind # "none" /\ ~Falsy(source_version)
    THEN [err |-> NoError, value |-> source_version]
    ELSE IF ~Falsy(version)
    THEN [err |-> NoError, value |-> version]
    ELSE [err |-> NoVersionError, value |-> None]

\* Package.get_version: self.version or self.source.get_version(); without a
\* declared version and without a source, None has no get_version
get_version ==
    IF ~Falsy(version)
    THEN [err |-> NoError, value |-> version]
    ELSE IF source.kind = "none"
    THEN [err |-> NoVersionError, value |-> None]
    ELSE [err |-> NoError, value |-> source_version]

\* A mutant of TarballName: the architecture is left out of the name.
TarballNameNoArch(n, a, v, api, rev) ==
    n \o "-" \o v \o "-android" \o ToString(api) \o "-ndk_" \o rev \o ".tar.bz2"

\* The f-string of Package.tarball_name
TarballName(n, a, v, api, rev) ==
    n \o "-" \o a \o "-" \o v \o "-android" \o ToString(api) \o "-ndk_" \o rev
      \o ".tar.bz2"

\* The property Package.tarball_name: the toolchain lookup, then the name.
tarball_name ==
    LET r == ndk
        v == get_version
    IN  [err |-> IF r.err # NoError THEN r.err ELSE v.err,
         unified_toolchain |-> r.unified_toolchain, _ndk |-> r._ndk,
         checked |-> r.checked,
         value |-> IF r.err = NoError /\ v.err = NoError
                   THEN TarballName(name, arch, v.value, api_level, ndk_revision)
                   ELSE None]

\* The five inputs of the archive name of this package (the version is None
\* when get_version raises)
Key == [name |-> name, arch |-> arch, version |-> get_version.value,
        api_level |-> api_level, ndk_revision |-> ndk_revision]

----------------------------------------------------------------------------
(* The build environment *)

BASE    == "/base"
SYSROOT == PathJoin(PathJoin(BASE, "build"), "sysroot")

Programs == {"ar", "as", "ld", "objcopy", "objdump", "ranlib", "strip", "readelf"}
CompilerKeys == {"CC", "CXX", "CPP", "CPPFLAGS", "CFLAGS", "CXXFLAGS", "LDFLAGS",
                 "PKG_CONFIG_SYSROOT_DIR", "PKG_CONFIG_LIBDIR"}

EmptyEnv == [k \in {} |-> ""]

\* the dict passed to self.env.update
CompilerEnv(ut) ==
    LET CLANG_PREFIX == PathJoin(ut, targetArch.ANDROID_TARGET \o ToString(api_level))
        cflags == <<"-fPIC">>
    IN  [k \in CompilerKeys |->
            CASE k = "CC"       -> CLANG_PREFIX \o "-clang"
              [] k = "CXX"      -> CLANG_PREFIX \o "-clang++"
              [] k = "CPP"      -> CLANG_PREFIX \o "-clang -E"
              [] k = "CPPFLAGS" -> <<"-I" \o SYSROOT \o "/usr/include">>
              [] k = "CFLAGS"   -> cflags
              [] k = "CXXFLAGS" -> cflags
              [] k = "LDFLAGS"  -> <<"-L" \o SYSROOT \o "/usr/lib", "-pie", "-fuse-ld=lld">>
              [] k = "PKG_CONFIG_SYSROOT_DIR" -> SYSROOT
              [] k = "PKG_CONFIG_LIBDIR" ->
                    PathJoin(PathJoin(PathJoin(SYSROOT, "usr"), "lib"), "pkgconfig")]

\* the loop over the binutils programs
BinutilsEnv(ut) ==
    [k \in { Upper(prog) : prog \in Programs } |->
        LET prog == CHOOSE q \in Programs : Upper(q) = k
        IN  PathJoin(ut, targetArch.binutils_prefix \o "-" \o prog)]

\* self.env after init_build_env filled it from the toolchain directory ut
BuildEnv(ut) == CompilerEnv(ut) @@ BinutilsEnv(ut)

\* A mutant of EnvIsSet: the guard of init_build_env never sees the env as set.
EnvIsNeverSet(e) == FALSE

\* bool(self.env)
EnvIsSet(e) == DOMAIN e # {}

----------------------------------------------------------------------------
(* The archive cache *)

HTTP_NOT_FOUND == 404

\* A mutant of IsNotFound: every HTTP error is taken for "not found".
AnyHttpErrorIsNotFound(code) == TRUE

\* A mutant of IsNotFound: no HTTP error is taken for "not found".
NoHttpErrorIsNotFound(code) == FALSE

\* err.code == 404
IsNotFound(code) == code = HTTP_NOT_FOUND

\* A mutant of LocalExists: the local archive is never seen.
LocalNeverExists(f) == FALSE

\* self.tarball_path.exists(): an empty file exists too
LocalExists(f) == f # "absent"

\* what tar does with a non-empty file: it unpacks an archive, stops in the
\* middle of a truncated one, or refuses a file that is no archive
TarOutcomes == {"unpacked", "truncated", "refused"}

\* tar -jxf tarball_path in SYSROOT, run with check_call: what it raises and
\* what it leaves in the sysroot.  tar cannot read a missing or empty archive,
\* and writes nothing when the file is no archive.
Extract(f, tar) ==
    IF f \in {"absent", "empty"} \/ tar = "refused"
    THEN [err |-> "CalledProcessError", sysroot |-> sysroot]
    ELSE IF tar = "unpacked"
    THEN [err |-> NoError, sysroot |-> "extracted"]
    ELSE [err |-> "CalledProcessError", sysroot |-> "partial"]

\* fetch_tarball from the request on: urlopen, the except clause, the write of
\* the body and the extraction.  open(.., 'wb') creates the file before
\* req.read() runs.
Download(resp, tar) ==
    IF resp.kind = "urlerror"
    THEN [ret |-> None, err |-> "URLError", localFile |-> localFile, sysroot |-> sysroot]
    ELSE IF resp.kind = "http" /\ resp.code # 200
    THEN IF IsNotFound(resp.code)
         THEN [ret |-> False, err |-> NoError, localFile |-> localFile,
               sysroot |-> sysroot]
         ELSE [ret |-> None, err |-> "HTTPError", localFile |-> localFile,
               sysroot |-> sysroot]
    ELSE IF resp.kind = "readerror"
    THEN [ret |-> None, err |-> "IncompleteRead", localFile |-> "empty",
          sysroot |-> sysroot]
    ELSE LET x == Extract("remote", tar)
         IN  [ret |-> IF x.err = NoError THEN True ELSE None, err |-> x.err,
              localFile |-> "remote", sysroot |-> x.sysroot]

----------------------------------------------------------------------------
(* The sources of a package *)

\* the objects the class declares: 0 is Package.source, i is Package.patches[i]
Declared == 0..Len(patches)
Object(i) == IF i = 0 THEN source ELSE patches[i]

\* source and isinstance(source, Source)
IsSource(o) == o.kind \in {"url", "vcs"}

\* the loop of Package.__init__: f.package = self for every entry of
\* self.sources and of self.patches; 0 stands for an attribute never assigned
Owned(self) ==
    [i \in Declared |-> IF i = 0 /\ ~IsSource(source) THEN 0 ELSE self]

\* an entry of the list Package.sources returns for the declared object i
Entry(i) ==
    [kind |-> Object(i).kind, url |-> Object(i).url, sig |-> Object(i).sig,
     package |-> owner[i], implicit |-> FALSE, index |-> i]

\* URLSource(source.source_url + source.sig_suffix): a new object, whose
\* package attribute nothing has assigned
SigSource(i) ==
    [kind |-> "url", url |-> Object(i).url \o Object(i).sig, sig |-> None,
     package |-> 0, implicit |-> TRUE, index |-> i]

\* A mutant of Entries: the signature source is left out.
EntriesWithoutSignature(i) ==
    IF IsSource(Object(i)) THEN <<Entry(i)>> ELSE << >>

\* one turn of the loop of Package.sources
Entries(i) ==
    IF IsSource(Object(i))
    THEN <<Entry(i)>> \o (IF ~Falsy(Object(i).sig) THEN <<SigSource(i)>> ELSE << >>)
    ELSE << >>

RECURSIVE SourcesFrom(_)
SourcesFrom(i) ==
    IF i > Len(patches) THEN << >> ELSE Entries(i) \o SourcesFrom(i + 1)

\* The property Package.sources
sources == SourcesFrom(0)

\* A mutant of NeedDownload: a VCS source is treated like a URL source.
NeedDownloadByMakefile(src, hasMakefile) ==
    IF src.kind = "none" THEN False
    ELSE IF hasMakefile THEN False ELSE True

\* Package.need_download
NeedDownload(src, hasMakefile) ==
    IF src.kind = "none" THEN False
    ELSE IF src.kind = "vcs" THEN True
    ELSE IF hasMakefile THEN False ELSE True

----------------------------------------------------------------------------
(* The operations *)

Returns(o, r, e, c, resp) ==
    /\ op' = o
    /\ ret' = r
    /\ err' = e
    /\ checked' = c
    /\ response' = resp

\* the attributes a toolchain lookup leaves on the instance
Looked(r) ==
    /\ _ndk' = r._ndk
    /\ unified_toolchain' = r.unified_toolchain

\* Package.__init__: a new instance of the same class, on the same disk
__init__ ==
    /\ instances < MaxInstances
    /\ instances' = instances + 1
    /\ name' = Lower(cls)
    /\ arch' = targetArch.cls
    /\ env' = EmptyEnv
    /\ _ndk' = None
    /\ unified_toolchain' = Unset
    /\ owner' = Owned(instances + 1)
    /\ Returns("__init__", None, NoError, FALSE, NoRequest)
    /\ UNCHANGED <<world, classAttrs, disk, produced, compared, published, declared,
                   lifecycle>>

\* reading the property Package.ndk
get_ndk ==
    LET r == ndk
    IN  /\ Looked(r)
        /\ Returns("ndk", IF r.err = NoError THEN r._ndk ELSE None, r.err, r.checked,
                   NoRequest)
        /\ UNCHANGED <<world, classAttrs, identity, env, disk, history, compared,
                 published, declared, owner, lifecycle>>

\* reading the property Package.tarball_name
get_tarball_name ==
    LET r == tarball_name
    IN  /\ Looked(r)
        /\ Returns("tarball_name", r.value, r.err, r.checked, NoRequest)
        /\ UNCHANGED <<world, classAttrs, identity, env, disk, history, compared,
                 published, declared, owner, lifecycle>>

\* Package.init_build_env
\* Package.init_build_env on an instance whose unified_toolchain attribute is
\* ut: what it returns or raises and the env it leaves
InitBuildEnvOn(ut) ==
    IF EnvIsSet(env)
    THEN [ret |-> False, err |-> NoError, env |-> env, populated |-> FALSE]
    ELSE IF ut = Unset
    THEN [ret |-> None, err |-> AttributeError, env |-> env, populated |-> TRUE]
    ELSE [ret |-> True, err |-> NoError, env |-> BuildEnv(ut), populated |-> TRUE]

\* Package.init_build_env
InitBuildEnv == InitBuildEnvOn(unified_toolchain)

\* a call of init_build_env, by anyone
Call_init_build_env ==
    /\ LET r == InitBuildEnv
       IN  /\ Returns("init_build_env", r.ret, r.err, FALSE, NoRequest)
           /\ env' = r.env
           /\ produced' = IF r.populated THEN produced \cup {r.env} ELSE produced
    /\ UNCHANGED <<world, classAttrs, identity, toolchain, disk, instances, compared,
                 published, declared, owner>>

init_build_env ==
    /\ Call_init_build_env
    /\ UNCHANGED lifecycle

\* Package.fetch_tarball
\* a call of fetch_tarball, by anyone
Call_fetch_tarball ==
    /\ IF skip_uploading
       THEN /\ Returns("fetch_tarball", None, NoError, FALSE, NoRequest)
            /\ UNCHANGED <<toolchain, disk>>
       ELSE LET r == tarball_name
            IN  /\ Looked(r)
                /\ IF r.err # NoError
                   THEN /\ Returns("fetch_tarball", None, r.err, r.checked, NoRequest)
                        /\ UNCHANGED disk
                   ELSE IF LocalExists(localFile)
                   THEN /\ Returns("fetch_tarball", True, NoError, r.checked, NoRequest)
                        /\ UNCHANGED disk
                   ELSE \E resp \in Responses, tar \in TarOutcomes :
                            LET d == Download(resp, tar)
                            IN  /\ Returns("fetch_tarball", d.ret, d.err, r.checked, resp)
                                /\ localFile' = d.localFile
                                /\ sysroot' = d.sysroot
    /\ UNCHANGED <<world, classAttrs, identity, env, history, compared,
                 published, declared, owner>>

fetch_tarball ==
    /\ Call_fetch_tarball
    /\ UNCHANGED lifecycle

\* Package.create_tarball: tar -jcf tarball_path . in destdir()
\* a call of create_tarball, by anyone
Call_create_tarball ==
    /\ LET r == tarball_name
       IN  /\ Looked(r)
           /\ Returns("create_tarball", None, r.err, r.checked, NoRequest)
           /\ localFile' = IF r.err = NoError THEN "built" ELSE localFile
    /\ UNCHANGED <<world, classAttrs, identity, env, sysroot, history, compared,
                 published, declared, owner>>

create_tarball ==
    /\ Call_create_tarball
    /\ UNCHANGED lifecycle

\* Package.extract_tarball
\* a call of extract_tarball, by anyone
Call_extract_tarball ==
    /\ LET r == tarball_name
       IN  /\ Looked(r)
           /\ IF r.err # NoError
              THEN /\ Returns("extract_tarball", None, r.err, r.checked, NoRequest)
                   /\ UNCHANGED sysroot
              ELSE \E tar \in TarOutcomes :
                       LET x == Extract(localFile, tar)
                       IN  /\ Returns("extract_tarball", None, x.err, r.checked,
                                      NoRequest)
                           /\ sysroot' = x.sysroot
    /\ UNCHANGED <<world, classAttrs, identity, env, localFile, history, compared,
                 published, declared, owner>>

extract_tarball ==
    /\ Call_extract_tarball
    /\ UNCHANGED lifecycle

\* reading the property Package.sources
get_sources ==
    /\ Returns("sources", sources, NoError, FALSE, NoRequest)
    /\ UNCHANGED <<world, classAttrs, identity, env, toolchain, disk, history, compared,
                   published, declared, owner, lifecycle>>

\* Package.need_download
need_download ==
    /\ Returns("need_download", NeedDownload(source, makefile), NoError, FALSE,
               NoRequest)
    /\ UNCHANGED <<world, classAttrs, identity, env, toolchain, disk, history, compared,
                   published, declared, owner, lifecycle>>

\* what a command runs with when run_in_source_dir gets no env argument: the
\* environment of the process, not self.env
InheritedEnv == [k \in {"<no env argument>"} |-> "os.environ"]

\* an env a caller of run makes up itself
CallerEnv == [k \in {"PATH"} |-> "/usr/bin"]

\* the keyword arguments a caller gives run: none, or env, which is self.env
\* (populated or not) or an env of the caller's own
NoKwargs == [k \in {} |-> EmptyEnv]
RunKwargs == {NoKwargs} \cup { [k \in {"env"} |-> e] : e \in {env, CallerEnv} }

\* Package.run: the command runs in the source directory with the keyword
\* arguments of the caller forwarded to run_in_source_dir, without
\* init_build_env; self.env is passed only if the caller passes it.  Without
\* a source the assert fails, or, with asserts compiled out, None has no
\* run_in_source_dir
Run(cmdOk, kwargs) ==
    IF ~IsSource(source)
    THEN [err |-> IF asserts THEN "AssertionError" ELSE NoSourceRunError,
          ranEnv |-> ranEnv]
    ELSE [err |-> IF cmdOk THEN NoError ELSE "CalledProcessError",
          ranEnv |-> IF "env" \in DOMAIN kwargs THEN kwargs["env"] ELSE InheritedEnv]

\* Package.run_with_env: the assert, then the env is initialised, then the
\* command runs with it
RunWithEnv(cmdOk) ==
    IF ~IsSource(source) /\ asserts
    THEN [err |-> "AssertionError", env |-> env, populated |-> FALSE, ranEnv |-> ranEnv]
    ELSE LET r == InitBuildEnv
         IN  IF r.err # NoError
             THEN [err |-> r.err, env |-> r.env, populated |-> r.populated,
                   ranEnv |-> ranEnv]
             ELSE IF ~IsSource(source)
             THEN [err |-> NoSourceRunError, env |-> r.env, populated |-> r.populated,
                   ranEnv |-> ranEnv]
             ELSE [err |-> IF cmdOk THEN NoError ELSE "CalledProcessError",
                   env |-> r.env, populated |-> r.populated, ranEnv |-> r.env]

\* a call of run, by anyone
Call_run ==
    /\ \E cmdOk \in BOOLEAN, kwargs \in RunKwargs :
           LET r == Run(cmdOk, kwargs)
           IN  /\ Returns("run", None, r.err, FALSE, NoRequest)
               /\ ranEnv' = r.ranEnv
    /\ UNCHANGED <<world, classAttrs, identity, env, toolchain, disk, history, compared,
                   published, declared, owner>>

run ==
    /\ Call_run
    /\ UNCHANGED stage

\* a call of run_with_env, by anyone
Call_run_with_env ==
    /\ \E cmdOk \in BOOLEAN :
           LET r == RunWithEnv(cmdOk)
           IN  /\ Returns("run_with_env", None, r.err, FALSE, NoRequest)
               /\ env' = r.env
               /\ produced' = IF r.populated THEN produced \cup {r.env} ELSE produced
               /\ ranEnv' = r.ranEnv
    /\ UNCHANGED <<world, classAttrs, identity, toolchain, disk, instances, compared,
                   published, declared, owner>>

run_with_env ==
    /\ Call_run_with_env
    /\ UNCHANGED stage

\* 0o644
WORLD_READABLE == 420

\* A mutant of PublishedMode: the chmod is left out, the copy keeps its mode.
KeepCopiedMode(copied) == copied

\* os.chmod(dest_path / basename, 0o644) after shutil.copy2 copied the mode
PublishedMode(copied) == WORLD_READABLE

\* A mutant of SkipsUpload: the skip_uploading flag is not looked at.
NeverSkipsUpload(flag) == FALSE

\* if self.skip_uploading
SkipsUpload(flag) == flag

\* shutil.copy2(tarball_path, dest_path) and the chmod: the exception raised,
\* the file left at dest_path / tarball_name and what is at dest_path.  copy2
\* cannot read a missing archive; into a directory it copies under the name of
\* the archive; when dest_path is a file or is missing, copy2 writes dest_path
\* itself and the chmod of dest_path / tarball_name fails; when the parent of
\* dest_path is missing as well, copy2 cannot create it.
Publish(f) ==
    IF f = "absent" \/ destKind = "noparent"
    THEN [err |-> "FileNotFoundError", destFile |-> destFile, destMode |-> destMode,
          destKind |-> destKind]
    ELSE IF destKind = "dir"
    THEN [err |-> NoError, destFile |-> f,
          destMode |-> PublishedMode(CreatedMode(umask)), destKind |-> destKind]
    ELSE [err |-> "NotADirectoryError", destFile |-> destFile, destMode |-> destMode,
          destKind |-> "copy"]

\* Package.upload_tarball
\* a call of upload_tarball, by anyone
Call_upload_tarball ==
    /\ IF SkipsUpload(skip_uploading) \/ Falsy(getenv(DestVar))
       THEN /\ Returns("upload_tarball", None, NoError, FALSE, NoRequest)
            /\ UNCHANGED <<toolchain, published>>
       ELSE LET r == tarball_name
            IN  /\ Looked(r)
                /\ IF r.err # NoError
                   THEN /\ Returns("upload_tarball", None, r.err, r.checked, NoRequest)
                        /\ UNCHANGED published
                   ELSE LET c == Publish(localFile)
                        IN  /\ Returns("upload_tarball", None, c.err, r.checked,
                                       NoRequest)
                            /\ destFile' = c.destFile
                            /\ destMode' = c.destMode
                            /\ destKind' = c.destKind
    /\ UNCHANGED <<world, classAttrs, identity, env, disk, history, compared, declared,
                   owner>>

upload_tarball ==
    /\ Call_upload_tarball
    /\ UNCHANGED lifecycle

----------------------------------------------------------------------------
(* The specification of one Package class on one machine *)

\* the instance attributes and the last call right after Package.__init__
Constructed ==
    /\ name = Lower(cls)
    /\ arch = targetArch.cls
    /\ env = EmptyEnv
    /\ _ndk = None
    /\ unified_toolchain = Unset
    /\ op = "__init__"
    /\ ret = None
    /\ err = NoError
    /\ checked = FALSE
    /\ response = NoRequest
    /\ instances = 1
    /\ produced = {}
    /\ owner = Owned(1)

\* a class with one URL source and no patches, nothing published, nothing built
Plain ==
    /\ source = [kind |-> "url", url |-> "https://host/foo-1.2.3.tar.gz", sig |-> None]
    /\ patches = << >>
    /\ makefile = FALSE
    /\ umask = 18
    /\ asserts = TRUE
    /\ destKind = "dir"
    /\ destFile = "absent"
    /\ destMode = 0
    /\ stage = "UNRESOLVED"
    /\ ranEnv = EmptyEnv

Init ==
    /\ environ \in { Environ(v, None) : v \in EnvironValues }
    /\ sysname \in Sysnames
    /\ fsDirs \in SUBSET ToolchainDirs
    /\ targetArch \in TargetArchs
    /\ api_level \in ApiLevels
    /\ ndk_revision = "21"
    /\ cls = "Foo"
    /\ version = None
    /\ source_version = "1.2.3"
    /\ skip_uploading \in BOOLEAN
    /\ localFile \in {"absent", "remote"}
    /\ sysroot = IF localFile = "absent" THEN "clean" ELSE "extracted"
    /\ Plain
    /\ Constructed
    /\ other = Key
    /\ otherName = None

Next ==
    \/ __init__
    \/ get_ndk
    \/ get_tarball_name
    \/ init_build_env
    \/ run
    \/ run_with_env
    \/ fetch_tarball
    \/ create_tarball
    \/ extract_tarball

Spec == Init /\ [][Next]_vars

----------------------------------------------------------------------------
(* The specification of archive names: two archive keys on a machine with a *)
(* valid toolchain, and the name computed for each                          *)

Keys ==
    [name : { Lower(c) : c \in ClassNames }, arch : { t.cls : t \in TargetArchs },
     version : Versions, api_level : ApiLevels, ndk_revision : Revisions]

\* the name of the second key, by the same f-string
other_tarball_name ==
    /\ otherName' = TarballName(other.name, other.arch, other.version,
                                other.api_level, other.ndk_revision)
    /\ UNCHANGED <<world, classAttrs, identity, env, toolchain, disk, outcome,
                   history, other, published, declared, owner, lifecycle>>

InitName ==
    /\ environ = Environ(NdkRoot, None)
    /\ sysname = "Linux"
    /\ fsDirs = ToolchainDirs
    /\ targetArch \in TargetArchs
    /\ api_level \in ApiLevels
    /\ ndk_revision \in Revisions
    /\ cls \in ClassNames
    /\ version \in {None, "1.2.3-arm64"}
    /\ source_version = "1.2.3"
    /\ skip_uploading = FALSE
    /\ localFile = "absent"
    /\ sysroot = "clean"
    /\ source \in {NoSource,
                   [kind |-> "url", url |-> "https://host/foo-1.2.3.tar.gz", sig |-> None]}
    /\ patches = << >>
    /\ makefile = FALSE
    /\ umask = 18
    /\ asserts = TRUE
    /\ destKind = "dir"
    /\ destFile = "absent"
    /\ destMode = 0
    /\ stage = "UNRESOLVED"
    /\ ranEnv = EmptyEnv
    /\ Constructed
    /\ other \in Keys
    /\ otherName = None

NextName ==
    \/ get_tarball_name
    \/ other_tarball_name

SpecName == InitName /\ [][NextName]_vars

----------------------------------------------------------------------------
(* The specification of the archive directories: the four archive operations *)
(* of one package, with and without a toolchain and a publish destination    *)

InitDist ==
    /\ environ \in { Environ(n, d) : n \in {None, NdkRoot}, d \in DestValues }
    /\ sysname = "Linux"
    /\ fsDirs = ToolchainDirs
    /\ targetArch \in {t \in TargetArchs : t.cls = "arm64"}
    /\ api_level \in {a \in ApiLevels : a = 24}
    /\ ndk_revision = "21"
    /\ cls = "Foo"
    /\ version = None
    /\ source_version = "1.2.3"
    /\ skip_uploading \in BOOLEAN
    /\ localFile \in {"absent", "remote"}
    /\ sysroot = IF localFile = "absent" THEN "clean" ELSE "extracted"
    /\ source = [kind |-> "url", url |-> "https://host/foo-1.2.3.tar.gz", sig |-> None]
    /\ patches = << >>
    /\ makefile = FALSE
    /\ umask \in Umasks
    /\ asserts = TRUE
    /\ destKind \in DestKinds
    /\ destFile = "absent"
    /\ destMode = 0
    /\ stage = "UNRESOLVED"
    /\ ranEnv = EmptyEnv
    /\ Constructed
    /\ other = Key
    /\ otherName = None

NextDist ==
    \/ fetch_tarball
    \/ create_tarball
    \/ extract_tarball
    \/ upload_tarball

SpecDist == InitDist /\ [][NextDist]_vars

----------------------------------------------------------------------------
(* The specification of the sources: the classes that declare a source and   *)
(* up to MaxPatches patches, with and without signature suffixes             *)

InitSources ==
    /\ environ = Environ(NdkRoot, None)
    /\ sysname = "Linux"
    /\ fsDirs = ToolchainDirs
    /\ targetArch \in {t \in TargetArchs : t.cls = "arm64"}
    /\ api_level \in {a \in ApiLevels : a = 24}
    /\ ndk_revision = "21"
    /\ cls = "Foo"
    /\ version = None
    /\ source_version = "1.2.3"
    /\ skip_uploading = FALSE
    /\ localFile = "absent"
    /\ sysroot = "clean"
    /\ source \in SourceValues
    /\ patches \in PatchLists
    /\ makefile \in BOOLEAN
    /\ umask = 18
    /\ asserts = TRUE
    /\ destKind = "dir"
    /\ destFile = "absent"
    /\ destMode = 0
    /\ stage = "UNRESOLVED"
    /\ ranEnv = EmptyEnv
    /\ Constructed
    /\ other = Key
    /\ otherName = None

NextSources ==
    \/ __init__
    \/ get_sources
    \/ need_download

SpecSources == InitSources /\ [][NextSources]_vars

----------------------------------------------------------------------------
(* The lifecycle of one package.  The controller that drives a package       *)
(* through its steps is not part of package.py; its steps are those of       *)
(* section 4.4 of the specification, and each step calls the operation of    *)
(* package.py that carries it out.                                           *)

Stages ==
    <<"UNRESOLVED", "SOURCE_READY", "PATCHED", "ENV_READY", "BUILT", "PACKAGED">>

Uploaded == {"UPLOADED", "SKIPPED_UPLOAD"}
Terminal == Uploaded \cup {"CACHED", "FAILED"}

\* the transitions of section 4.4, failures aside
Transitions ==
    { <<Stages[i], Stages[i + 1]>> : i \in 1..(Len(Stages) - 1) }
        \cup { <<"UNRESOLVED", "CACHED">> }
        \cup { <<"PACKAGED", t>> : t \in Uploaded }

\* UNRESOLVED: the archive cache is asked first; a hit ends the lifecycle in
\* CACHED, a miss lets the sources be resolved, which can fail only when
\* something has to be downloaded
resolve ==
    /\ stage = "UNRESOLVED"
    /\ Call_fetch_tarball
    /\ \E srcOk \in IF NeedDownload(source, makefile) = True THEN BOOLEAN ELSE {TRUE} :
           stage' = IF err' # NoError THEN "FAILED"
                    ELSE IF ret' = True THEN "CACHED"
                    ELSE IF srcOk THEN "SOURCE_READY"
                    ELSE "FAILED"
    /\ UNCHANGED ranEnv

\* SOURCE_READY: the patches are applied in the source directory
apply_patches ==
    /\ stage = "SOURCE_READY"
    /\ \E patchOk \in BOOLEAN :
           /\ Returns("apply_patches", None, IF patchOk THEN NoError ELSE "PatchError",
                      FALSE, NoRequest)
           /\ stage' = IF patchOk THEN "PATCHED" ELSE "FAILED"
    /\ UNCHANGED <<world, classAttrs, identity, env, toolchain, disk, history, compared,
                   published, declared, owner, ranEnv>>

\* A mutant of prepare_env: ENV_READY is entered without the environment
\* builder having run.
PrepareEnvSkipsBuilder ==
    /\ stage = "PATCHED"
    /\ Returns("init_build_env", True, NoError, FALSE, NoRequest)
    /\ stage' = "ENV_READY"
    /\ UNCHANGED <<world, classAttrs, identity, env, toolchain, disk, history, compared,
                   published, declared, owner, ranEnv>>

\* PATCHED: the environment builder of section 4.3 runs: the toolchain root is
\* resolved and validated (Package.ndk), then the environment is derived
\* (Package.init_build_env)
prepare_env ==
    /\ stage = "PATCHED"
    /\ LET r == ndk
       IN  /\ Looked(r)
           /\ IF r.err # NoError
              THEN /\ Returns("ndk", None, r.err, r.checked, NoRequest)
                   /\ UNCHANGED <<env, produced>>
                   /\ stage' = "FAILED"
              ELSE LET i == InitBuildEnvOn(r.unified_toolchain)
                   IN  /\ Returns("init_build_env", i.ret, i.err, r.checked, NoRequest)
                       /\ env' = i.env
                       /\ produced' = IF i.populated THEN produced \cup {i.env}
                                      ELSE produced
                       /\ stage' = IF i.err = NoError THEN "ENV_READY" ELSE "FAILED"
    /\ UNCHANGED <<world, classAttrs, identity, disk, instances, compared, published,
                   declared, owner, ranEnv>>

\* ENV_READY: the recipe's build() runs its command, through run_with_env or
\* through run
build ==
    /\ stage = "ENV_READY"
    /\ \/ Call_run_with_env
       \/ Call_run
    /\ stage' = IF err' = NoError THEN "BUILT" ELSE "FAILED"

\* BUILT: the destination directory is archived
package ==
    /\ stage = "BUILT"
    /\ Call_create_tarball
    /\ stage' = IF err' = NoError THEN "PACKAGED" ELSE "FAILED"
    /\ UNCHANGED ranEnv

\* PACKAGED: the archive is published, unless publishing is skipped
publish ==
    /\ stage = "PACKAGED"
    /\ Call_upload_tarball
    /\ stage' = IF err' # NoError THEN "FAILED"
                ELSE IF destFile' = "absent" THEN "SKIPPED_UPLOAD"
                ELSE "UPLOADED"
    /\ UNCHANGED ranEnv

InitLifecycle ==
    /\ environ \in { Environ(n, d) : n \in {None, NdkRoot}, d \in {None, DestDir} }
    /\ sysname = "Linux"
    /\ fsDirs = ToolchainDirs
    /\ targetArch \in {t \in TargetArchs : t.cls = "arm64"}
    /\ api_level \in {a \in ApiLevels : a = 24}
    /\ ndk_revision = "21"
    /\ cls = "Foo"
    /\ version = None
    /\ source_version = "1.2.3"
    /\ skip_uploading \in BOOLEAN
    /\ localFile \in {"absent", "remote"}
    /\ sysroot = IF localFile = "absent" THEN "clean" ELSE "extracted"
    /\ source \in SourceValues
    /\ patches = << >>
    /\ makefile \in BOOLEAN
    /\ umask = 18
    /\ asserts \in BOOLEAN
    /\ destKind \in DestKinds
    /\ destFile = "absent"
    /\ destMode = 0
    /\ stage = "UNRESOLVED"
    /\ ranEnv = EmptyEnv
    /\ Constructed
    /\ other = Key
    /\ otherName = None

NextLifecycle ==
    \/ resolve
    \/ apply_patches
    \/ prepare_env
    \/ build
    \/ package
    \/ publish

SpecLifecycle == InitLifecycle /\ [][NextLifecycle]_vars

----------------------------------------------------------------------------
(* Properties *)

\* what the machine makes of a toolchain lookup, in the order of section 4.3
ExpectedLookupError ==
    IF Falsy(environ["ANDROID_NDK"]) THEN ConfigurationError
    ELSE IF Lower(sysname) \notin SupportedHosts THEN UnsupportedHostError
    ELSE IF UnifiedToolchain(environ["ANDROID_NDK"], Lower(sysname)) \notin fsDirs
    THEN ToolchainVersionError
    ELSE NoError

\* the toolchain root is set, the host is supported, the bin directory is missing
ToolchainBinMissing == ExpectedLookupError = ToolchainVersionError

ValidationErrors == {ConfigurationError, UnsupportedHostError, ToolchainVersionError}
LookupOps == {"ndk", "tarball_name", "fetch_tarball", "create_tarball", "extract_tarball"}

\* C1: env is populated at most once per instance: an init_build_env call on an
\* empty env that returns True leaves env filled, and every init_build_env call
\* on a filled env returns False and changes nothing of the package or the
\* disk; no other operation on the instance changes a filled env.
C1_EnvPopulatedOnce ==
    [][ /\ (op' = "init_build_env" /\ DOMAIN env # {})
            => /\ ret' = False
               /\ err' = NoError
               /\ UNCHANGED <<env, identity, toolchain, classAttrs, disk>>
        /\ (op' = "init_build_env" /\ DOMAIN env = {})
            => /\ ret' = True <=> err' = NoError
               /\ ret' = True <=> DOMAIN env' # {}
        /\ (op' # "__init__" /\ DOMAIN env # {}) => env' = env ]_vars

\* C1 witness: a second init_build_env call on a filled env returned False
C1_Witness == op = "init_build_env" /\ ret = False /\ DOMAIN env # {}

\* C2: whenever fetch_tarball returns True, the archive is at the local tarball
\* path and has been extracted into the sysroot.
C2_HitMeansExtracted ==
    (op = "fetch_tarball" /\ ret = True)
        => (localFile \in {"remote", "built"} /\ sysroot = "extracted")

\* the archive exists at the expected tarball path; there is an expected path
\* only where the archive name can be computed (the toolchain is valid)
LocalArchiveExists == localFile # "absent" /\ ExpectedLookupError = NoError

\* C3 as stated: for every package, a fetch_tarball call made while the local
\* archive exists returns True, makes no request and leaves the archive.
C3_Original ==
    [][ (op' = "fetch_tarball" /\ LocalArchiveExists)
            => (ret' = True /\ response' = NoRequest /\ localFile' = localFile) ]_vars

\* C3 as amended: for a package that has not set skip_uploading, a
\* fetch_tarball call made while the local archive exists returns True without
\* an error, makes no request and leaves the archive and the sysroot
\* unchanged, so it can be repeated; for a package with skip_uploading set the
\* call returns None, also without a request or a change on disk.
C3_LocalHitNoNetwork ==
    [][ /\ (op' = "fetch_tarball" /\ LocalArchiveExists /\ ~skip_uploading)
            => /\ ret' = True
               /\ err' = NoError
               /\ response' = NoRequest
               /\ UNCHANGED disk
        /\ (op' = "fetch_tarball" /\ skip_uploading)
            => /\ ret' = None
               /\ err' = NoError
               /\ response' = NoRequest
               /\ UNCHANGED disk ]_vars

\* C3 witness: a fetch_tarball call found the downloaded archive and made no request
C3_Witness ==
    /\ op = "fetch_tarball"
    /\ ~skip_uploading
    /\ ret = True
    /\ response = NoRequest
    /\ localFile = "remote"

\* C4: a fetch_tarball call whose request is answered 404 raises nothing,
\* returns False, writes no local archive and extracts nothing.
C4_NotFoundIsMiss ==
    [][ (op' = "fetch_tarball" /\ response'.kind = "http"
            /\ response'.code = HTTP_NOT_FOUND)
            => /\ ret' = False
               /\ err' = NoError
               /\ localFile = "absent"
               /\ UNCHANGED disk ]_vars

\* C4 witness: the store answered 404 and fetch_tarball returned False
C4_Witness ==
    /\ op = "fetch_tarball"
    /\ response = [kind |-> "http", code |-> HTTP_NOT_FOUND]
    /\ ret = False
    /\ localFile = "absent"

\* the request itself failed: a transport error or an HTTP status other than 404
RequestFailed(r) ==
    \/ r.kind = "urlerror"
    \/ r.kind = "http" /\ r.code \notin {200, HTTP_NOT_FOUND}

\* the download failed: the request, or the read of the body
DownloadFailed(r) == RequestFailed(r) \/ r.kind = "readerror"

\* C5: a download failure other than 404 leaves fetch_tarball with an
\* exception and neither True nor False; when the request itself failed the
\* local archive and the sysroot are unchanged.
C5_OtherFailuresPropagate ==
    [][ (op' = "fetch_tarball" /\ DownloadFailed(response'))
            => /\ err' \in {"HTTPError", "URLError", "IncompleteRead"}
               /\ ret' \notin {True, False}
               /\ RequestFailed(response') => UNCHANGED disk ]_vars

\* C5 witness: the store answered 500 and fetch_tarball raised HTTPError
C5_Witness ==
    /\ op = "fetch_tarball"
    /\ response = [kind |-> "http", code |-> 500]
    /\ err = "HTTPError"
    /\ localFile = "absent"

\* C6: when the toolchain root lacks the unified-toolchain bin directory, every
\* init_build_env call on an empty env raises the toolchain-version error and
\* leaves env empty, whatever ran on the instance before.
C6_NoEnvWithoutToolchain ==
    [][ (op' = "init_build_env" /\ DOMAIN env = {} /\ ToolchainBinMissing)
            => (err' = ToolchainVersionError /\ DOMAIN env' = {}) ]_vars

\* C7: on one machine (one toolchain root, host, architecture and API level)
\* every init_build_env call on a fresh env leaves the same env, whatever ran
\* on the instance before.
C7_EnvDeterministic == \A e1, e2 \in produced : e1 = e2

\* C8: a toolchain validation fails with the first violated prerequisite, in
\* the order environment variable, host, bin directory, and succeeds, caching
\* the root, exactly when all three hold.
C8_CheckOrder ==
    /\ (op = "ndk" /\ checked) => err = ExpectedLookupError
    /\ (op = "ndk" /\ err = NoError) => (ExpectedLookupError = NoError /\ ret = _ndk)
    /\ (op \in LookupOps /\ checked /\ ExpectedLookupError # NoError)
            => (err = ExpectedLookupError /\ _ndk = None)
    /\ (op \in LookupOps /\ checked /\ ExpectedLookupError = NoError)
            => _ndk = environ["ANDROID_NDK"]

\* C8 witness: on an unsupported host with the variable set, the lookup raised
\* the unsupported-host error
C8_Witness ==
    /\ op = "ndk"
    /\ checked
    /\ ~Falsy(environ["ANDROID_NDK"])
    /\ err = UnsupportedHostError

\* C9: once a lookup has succeeded, a later lookup returns the memoized root
\* without validating again; a lookup that failed validation leaves no
\* toolchain path on the instance.
C9_MemoizedOnlyWhenValid ==
    [][ (op' \in LookupOps)
            => /\ (_ndk # None)
                    => /\ ~checked'
                       /\ _ndk' = _ndk
                       /\ op' = "ndk" => ret' = _ndk
               /\ (checked' /\ err' \in ValidationErrors)
                    => /\ _ndk' = None
                       /\ unified_toolchain' = Unset ]_vars

\* the two keys differ in exactly one of the five components
DiffersInOne(k1, k2) ==
    Cardinality({ f \in DOMAIN k1 : k1[f] # k2[f] }) = 1

\* C10: the archive name is a function of the five-tuple: a package whose key
\* equals the other key gets the same name, and a package whose key differs
\* from it in exactly one component gets a different name.
C10_NameDeterminedByKey ==
    (op = "tarball_name" /\ err = NoError /\ otherName # None)
        => /\ Key = other => ret = otherName
           /\ DiffersInOne(Key, other) => ret # otherName

\* C10 witness: both names computed for keys that differ in the architecture only
C10_Witness ==
    /\ op = "tarball_name"
    /\ err = NoError
    /\ otherName # None
    /\ DiffersInOne(Key, other)
    /\ Key.arch # other.arch

\* C11: the archive name is {name}-{arch}-{version}-android{api_level}-ndk_{rev}
\* .tar.bz2 with name the lowercase class name and version the declared version
\* when the class declares one, else the version of the source; class Foo with
\* no declared version, source version 1.2.3, arm64, API level 24 and revision
\* 21 gets foo-arm64-1.2.3-android24-ndk_21.tar.bz2.
C11_NameGrammar ==
    (op = "tarball_name" /\ err = NoError)
        => /\ ret = Lower(cls) \o "-" \o targetArch.cls \o "-"
                    \o (IF version # None THEN version ELSE source_version)
                    \o "-android" \o ToString(api_level) \o "-ndk_" \o ndk_revision
                    \o ".tar.bz2"
           /\ (cls = "Foo" /\ version = None /\ source_version = "1.2.3"
                 /\ targetArch.cls = "arm64" /\ api_level = 24 /\ ndk_revision = "21")
                => ret = "foo-arm64-1.2.3-android24-ndk_21.tar.bz2"
           /\ (cls = "Foo" /\ version = "1.2.3-arm64" /\ source_version = "1.2.3"
                 /\ targetArch.cls = "arm" /\ api_level = 21 /\ ndk_revision = "21")
                => ret = "foo-arm-1.2.3-arm64-android21-ndk_21.tar.bz2"

\* C11 witness: the name of the scenario was computed
C11_Witness ==
    /\ op = "tarball_name"
    /\ version = None
    /\ ret = "foo-arm64-1.2.3-android24-ndk_21.tar.bz2"

\* C12: an upload_tarball call of a package with skip_uploading set copies
\* nothing to the destination, changes no permission and raises nothing,
\* whether or not the destination variable is set and a local archive exists.
C12_SkipUploading ==
    [][ (op' = "upload_tarball" /\ skip_uploading)
            => /\ err' = NoError
               /\ UNCHANGED <<published, disk>> ]_vars

\* C12 witness: upload_tarball returned for a package with skip_uploading set,
\* with the destination set and a local archive there, and nothing was copied
C12_Witness ==
    /\ op = "upload_tarball"
    /\ skip_uploading
    /\ environ[DestVar] = DestDir
    /\ destKind = "dir"
    /\ localFile # "absent"
    /\ err = NoError
    /\ destFile = "absent"

\* upload_tarball has what it needs to copy: a local archive whose name can be
\* computed and a destination directory
CanPublish ==
    /\ localFile # "absent"
    /\ environ[NdkVar] = NdkRoot
    /\ get_version.err = NoError
    /\ destKind = "dir"

\* C13: for a package without skip_uploading, an upload_tarball call with the
\* destination variable set (to a directory, with a local archive to copy)
\* leaves at the destination a copy of the local archive under its archive
\* name with mode 0644; with the variable unset (or empty) the call copies
\* nothing and raises nothing.
C13_Publish ==
    [][ (op' = "upload_tarball" /\ ~skip_uploading)
            => /\ (environ[DestVar] = DestDir /\ CanPublish)
                    => /\ err' = NoError
                       /\ destFile' = localFile
                       /\ destMode' = 420
                       /\ UNCHANGED disk
               /\ (environ[DestVar] \in {None, ""})
                    => /\ err' = NoError
                       /\ UNCHANGED <<published, disk>> ]_vars

\* C13 witness: under umask 077 the built archive was published
C13_Witness ==
    /\ op = "upload_tarball"
    /\ ~skip_uploading
    /\ umask = 63
    /\ err = NoError
    /\ localFile = "built"
    /\ destFile = "built"
    /\ destMode = 420

\* C17: no operation deletes, truncates or overwrites an archive that exists
\* in the local distribution directory.
C17_DistAppendOnly ==
    [][ localFile # "absent" => localFile' = localFile ]_vars

\* C18: fetch_tarball never reports a cache hit for a local file that is empty
\* or truncated, whatever failed in the earlier fetch_tarball calls.
C18_HitMeansComplete ==
    (op = "fetch_tarball" /\ ret = True) => localFile \in {"remote", "built"}

\* C14: need_download is True for every VCS source, with or without a Makefile
\* in the source directory; for a URL source it is True exactly when the
\* Makefile is absent; for a package without a source it is False.
C14_NeedDownload ==
    (op = "need_download")
        => /\ err = NoError
           /\ source.kind = "vcs" => ret = True
           /\ source.kind = "url" => (ret = True <=> ~makefile)
           /\ source.kind = "url" => ret \in {True, False}
           /\ source.kind = "none" => ret = False

\* C14 witness: a VCS source with a Makefile in its source directory needs a download
C14_Witness ==
    /\ op = "need_download"
    /\ source.kind = "vcs"
    /\ makefile
    /\ ret = True

\* the declared objects that are sources, in the order main source, patches
DeclaredSources == { i \in Declared : IsSource(Object(i)) }

\* C15: in the list Package.sources returns, every declared source with a
\* signature suffix is immediately followed by an implicit URL source whose
\* url is its url with the suffix appended, there is no other implicit entry,
\* and the declared sources appear once each, the main source first and the
\* patches in the order of their declaration.
C15_SignatureFollows ==
    (op = "sources")
        => LET n == Len(ret)
               explicit == { k \in 1..n : ~ret[k].implicit }
           IN  /\ \A k \in 1..n :
                     (~ret[k].implicit /\ ret[k].sig # None)
                        => /\ k < n
                           /\ ret[k + 1].implicit
                           /\ ret[k + 1].kind = "url"
                           /\ ret[k + 1].url = ret[k].url \o ret[k].sig
               /\ \A k \in 1..n :
                     ret[k].implicit
                        => /\ k > 1
                           /\ ~ret[k - 1].implicit
                           /\ ret[k - 1].sig # None
               /\ { ret[k].index : k \in explicit } = DeclaredSources
               /\ \A k \in explicit :
                     /\ ret[k].url = Object(ret[k].index).url
                     /\ ret[k].sig = Object(ret[k].index).sig
               /\ \A j, k \in explicit : j < k => ret[j].index < ret[k].index

\* C15 witness: a main source and a later patch, both with a suffix, each
\* followed by its signature source
C15_Witness ==
    /\ op = "sources"
    /\ Len(ret) >= 4
    /\ ~ret[1].implicit /\ ret[1].index = 0
    /\ ret[2].implicit
    /\ \E k \in 3..Len(ret) : ret[k].implicit

\* C19: every entry of the list Package.sources returns after construction,
\* the implicit signature sources included, has its package attribute set to
\* the package.
C19_SourcesOwned ==
    (op = "sources") => \A k \in 1..Len(ret) : ret[k].package = instances

\* the methods through which build() runs its command
BuildOps == {"run", "run_with_env"}

\* the env is populated from ENV_READY on
EnvInitialised ==
    stage \in {"ENV_READY", "BUILT", "PACKAGED"} \cup Uploaded => env # EmptyEnv

\* one step of the lifecycle
InOrder ==
    /\ stage \notin Terminal
    /\ stage' # stage
    /\ stage' = "FAILED" \/ <<stage, stage'>> \in Transitions
    /\ op' \in BuildOps => (stage = "ENV_READY" /\ env # EmptyEnv /\ env' = env)
    /\ stage' = "BUILT" => (op' \in BuildOps /\ err' = NoError)
    /\ ranEnv' # ranEnv => op' \in BuildOps
    /\ (op' = "run_with_env" /\ err' \in {NoError, "CalledProcessError"})
          => ranEnv' = env
    /\ (localFile' # localFile /\ localFile' = "built")
          => (op' = "create_tarball" /\ stage = "BUILT")
    /\ op' = "create_tarball" => stage = "BUILT"
    /\ op' = "upload_tarball" => stage = "PACKAGED"

====
